---- MODULE Spec2Model ----
(***************************************************************************)
(* Model of the Happy-Hour-Duty rotation bot: the JSON document kept by    *)
(* DatabaseManager, the rotation algorithm of RotationManager, the         *)
(* WeeklyScheduler with its in-memory response timeouts, and the callback  *)
(* and admin handlers that drive them.                                     *)
(*                                                                         *)
(* Conventions.  Python's None is 0: telegram ids are 1..NumIds and days   *)
(* are counted from 1, so `if x:` in the source is `x # None` here.  A     *)
(* Python list is a sequence; a 0-based index i reads element i + 1.  The  *)
(* clock `now` counts days; day d has Python weekday d % 7 (day 1 is a     *)
(* Tuesday, day 2 a Wednesday, day 3 a Thursday).  A handler runs to its   *)
(* end in one step; what it sends (duty notifications, escalation alerts)  *)
(* is returned with the state it leaves, in a record called a world.       *)
(***************************************************************************)
EXTENDS Integers, Sequences, FiniteSets, TLC

\* ------------------------------------------------------------------ bounds
NumIds == 2
MaxTicks == 1

\* --------------------------------------------------------------- constants
response_window_hours == 24

None == 0
Ids == 1..NumIds

VARIABLES
    db,             \* the JSON document: participants and schedule
    timeout_tasks,  \* WeeklyScheduler.timeout_tasks: id -> state of its task
    now,            \* the wall clock, in days
    running,        \* the bot runs: FALSE from BotCore.shutdown to the next start
    suspended       \* the decline callback that waits at an await, if any

vars == <<db, timeout_tasks, now, running, suspended>>

\* ------------------------------------------------------------ sequences
Range(s) == {s[i] : i \in 1..Len(s)}

InSeq(x, s) == x \in Range(s)

\* list.remove(x): drops the first occurrence of x
RECURSIVE ListRemove(_, _)
ListRemove(s, x) ==
    IF s = <<>> THEN <<>>
    ELSE IF Head(s) = x THEN Tail(s)
    ELSE <<Head(s)>> \o ListRemove(Tail(s), x)

\* ------------------------------------------------------------- datetime
weekday(d) == d % 7

get_next_wednesday(today) ==
    LET days_ahead == 2 - weekday(today)
    IN  IF days_ahead <= 0 THEN today + days_ahead + 7 ELSE today + days_ahead

\* ------------------------------------------------------- DatabaseManager
Schedule ==
    [rotation_list |-> <<>>,
     next_pointer_index |-> 0,
     last_assignment_date |-> None,
     next_meeting_date |-> None,
     skipped_this_round |-> <<>>,
     current_assigned_id |-> None,
     assignment_status |-> "pending"]

\* The dataclass fields in declaration order, and those typed Optional.
Fields ==
    <<"rotation_list", "next_pointer_index", "last_assignment_date",
      "next_meeting_date", "skipped_this_round", "current_assigned_id",
      "assignment_status">>

OptionalFields == {"last_assignment_date", "next_meeting_date", "current_assigned_id"}

\* a to_dict that leaves the status out
to_dict_without_status(schedule) ==
    [i \in 1..(Len(Fields) - 1) |-> <<Fields[i], schedule[Fields[i]]>>]

\* Schedule.to_dict, dataclasses.asdict: a dict is the sequence of its
\* <<key, value>> items
to_dict(schedule) ==
    [i \in 1..Len(Fields) |-> <<Fields[i], schedule[Fields[i]]>>]

\* Schedule.from_dict, cls(**data): a key that is no field raises, a field
\* without a key takes its default
from_dict(data) ==
    IF \E i \in DOMAIN data : data[i][1] \notin Range(Fields) THEN "TypeError"
    ELSE [k \in Range(Fields) |->
             IF \E i \in DOMAIN data : data[i][1] = k
             THEN data[CHOOSE i \in DOMAIN data : data[i][1] = k][2]
             ELSE Schedule[k]]

\* json.dump of the schedule dict in _write_db: None is written as null, a
\* list as an array, the dates and the status as strings, the pointer and
\* the assignee's id as numbers
json_dump(data) ==
    [i \in DOMAIN data |->
        LET key == data[i][1]
            value == data[i][2]
        IN  <<key,
              IF key \in OptionalFields /\ value = None THEN <<"null">>
              ELSE IF key \in {"rotation_list", "skipped_this_round"}
                   THEN <<"array", value>>
              ELSE IF key \in {"next_pointer_index", "current_assigned_id"}
                   THEN <<"number", value>>
              ELSE <<"string", value>>>>]

\* json.load in _read_db
json_load(text) ==
    [i \in DOMAIN text |->
        <<text[i][1], IF text[i][2][1] = "null" THEN None ELSE text[i][2][2]>>]

_initialize_database ==
    [participants |-> [i \in Ids |-> "absent"],
     schedule |-> Schedule]

\* the status of the participant record, "absent" when there is none
get_participant(d, telegram_id) == d.participants[telegram_id]

get_schedule(d) == d.schedule

update_schedule(d, schedule) == [d EXCEPT !.schedule = schedule]

add_participant(d, telegram_id) ==
    IF d.participants[telegram_id] # "absent"
    THEN [db |-> d, ret |-> FALSE]
    ELSE [db |-> [d EXCEPT !.participants[telegram_id] = "pending"], ret |-> TRUE]

\* an update that puts the approved id at the head of the rotation list
update_participant_prepends(d, telegram_id, status) ==
    IF d.participants[telegram_id] = "absent"
    THEN [db |-> d, ret |-> FALSE]
    ELSE LET d1 == [d EXCEPT !.participants[telegram_id] = status]
             d2 == IF status = "approved" /\ ~InSeq(telegram_id, d1.schedule.rotation_list)
                   THEN [d1 EXCEPT !.schedule.rotation_list = <<telegram_id>> \o @]
                   ELSE d1
         IN  [db |-> d2, ret |-> TRUE]

update_participant(d, telegram_id, status) ==
    IF d.participants[telegram_id] = "absent"
    THEN [db |-> d, ret |-> FALSE]
    ELSE LET d1 == [d EXCEPT !.participants[telegram_id] = status]
             d2 == IF status = "approved" /\ ~InSeq(telegram_id, d1.schedule.rotation_list)
                   THEN [d1 EXCEPT !.schedule.rotation_list = Append(@, telegram_id)]
                   ELSE d1
         IN  [db |-> d2, ret |-> TRUE]

\* a removal that deletes the record and leaves the id in the rotation list
remove_participant_keeps_order(d, telegram_id) ==
    IF d.participants[telegram_id] = "absent"
    THEN [db |-> d, ret |-> FALSE]
    ELSE [db |-> [d EXCEPT !.participants[telegram_id] = "absent"], ret |-> TRUE]

\* a removal that leaves the pointer where it is
remove_participant_keeps_pointer(d, telegram_id) ==
    IF d.participants[telegram_id] = "absent"
    THEN [db |-> d, ret |-> FALSE]
    ELSE [db |-> [d EXCEPT !.participants[telegram_id] = "absent",
                           !.schedule.rotation_list = ListRemove(@, telegram_id)],
          ret |-> TRUE]

remove_participant(d, telegram_id) ==
    IF d.participants[telegram_id] = "absent"
    THEN [db |-> d, ret |-> FALSE]
    ELSE LET d1 == [d EXCEPT !.participants[telegram_id] = "absent"]
             d2 == IF InSeq(telegram_id, d1.schedule.rotation_list)
                   THEN LET rl == ListRemove(d1.schedule.rotation_list, telegram_id)
                        IN  [d1 EXCEPT !.schedule.rotation_list = rl,
                                       !.schedule.next_pointer_index =
                                           IF @ >= Len(rl) THEN 0 ELSE @]
                   ELSE d1
         IN  [db |-> d2, ret |-> TRUE]

\* a move that is lost
move_to_next_participant_stays(d) == d

move_to_next_participant(d) ==
    LET schedule == get_schedule(d)
    IN  IF schedule.rotation_list = <<>> THEN d
        ELSE update_schedule(d, [schedule EXCEPT !.next_pointer_index =
                                    (@ + 1) % Len(schedule.rotation_list)])

add_skipped_participant(d, telegram_id) ==
    LET schedule == get_schedule(d)
    IN  IF ~InSeq(telegram_id, schedule.skipped_this_round)
        THEN update_schedule(d, [schedule EXCEPT !.skipped_this_round =
                                    Append(@, telegram_id)])
        ELSE d

clear_skipped_participants(d) ==
    LET schedule == get_schedule(d)
    IN  update_schedule(d, [schedule EXCEPT !.skipped_this_round = <<>>])

set_current_assignment(d, telegram_id, meeting_date, today) ==
    LET schedule == get_schedule(d)
    IN  update_schedule(d, [schedule EXCEPT !.current_assigned_id = telegram_id,
                                            !.next_meeting_date = meeting_date,
                                            !.last_assignment_date = today,
                                            !.assignment_status = "pending"])

\* a confirmation that keeps the skipped list
confirm_assignment_keeps_skipped(d) ==
    LET schedule == get_schedule(d)
    IN  update_schedule(d, [schedule EXCEPT !.assignment_status = "confirmed"])

\* the schedule read first is written back last, over the pointer move
confirm_assignment(d) ==
    LET schedule == get_schedule(d)
        confirmed == [schedule EXCEPT !.assignment_status = "confirmed",
                                      !.skipped_this_round = <<>>]
        moved == move_to_next_participant(d)
    IN  update_schedule(moved, confirmed)

\* ------------------------------------------------------- RotationManager
RECURSIVE scan_rotation(_, _, _, _)
scan_rotation(d, skipped, start_index, checked_count) ==
    LET schedule == get_schedule(d)
        n == Len(schedule.rotation_list)
    IN  IF checked_count >= n THEN [db |-> d, ret |-> None]
        ELSE LET current_index == (start_index + checked_count) % n
                 participant_id == schedule.rotation_list[current_index + 1]
             IN  IF participant_id \notin skipped
                    /\ get_participant(d, participant_id) = "approved"
                 THEN [db |-> update_schedule(d, [schedule EXCEPT
                                  !.next_pointer_index = current_index]),
                       ret |-> participant_id]
                 ELSE scan_rotation(d, skipped, start_index, checked_count + 1)

\* a search that starts at the head of the list, not at the pointer
get_next_available_participant_from_head(d) ==
    LET schedule == get_schedule(d)
        skipped == Range(schedule.skipped_this_round)
    IN  IF schedule.rotation_list = <<>> THEN [db |-> d, ret |-> None]
        ELSE IF Cardinality(skipped) >= Len(schedule.rotation_list)
        THEN [db |-> d, ret |-> None]
        ELSE scan_rotation(d, skipped, 0, 0)

\* a search that returns the candidate and writes nothing
get_next_available_participant_keeps_pointer(d) ==
    LET schedule == get_schedule(d)
        skipped == Range(schedule.skipped_this_round)
    IN  IF schedule.rotation_list = <<>> THEN [db |-> d, ret |-> None]
        ELSE IF Cardinality(skipped) >= Len(schedule.rotation_list)
        THEN [db |-> d, ret |-> None]
        ELSE [db |-> d,
              ret |-> scan_rotation(d, skipped, schedule.next_pointer_index, 0).ret]

get_next_available_participant(d) ==
    LET schedule == get_schedule(d)
        skipped == Range(schedule.skipped_this_round)
    IN  IF schedule.rotation_list = <<>> THEN [db |-> d, ret |-> None]
        ELSE IF Cardinality(skipped) >= Len(schedule.rotation_list)
        THEN [db |-> d, ret |-> None]
        ELSE scan_rotation(d, skipped, schedule.next_pointer_index, 0)

assign_duty(d, participant_id, meeting_date, today) ==
    set_current_assignment(d, participant_id,
        IF meeting_date = None THEN get_next_wednesday(today) ELSE meeting_date,
        today)

\* a skip that does not put the assignee on the skipped list
skip_current_and_get_next_forgets(d) ==
    get_next_available_participant(move_to_next_participant(d))

skip_current_and_get_next(d) ==
    LET schedule == get_schedule(d)
        d1 == IF schedule.current_assigned_id # None
              THEN add_skipped_participant(d, schedule.current_assigned_id)
              ELSE d
        d2 == move_to_next_participant(d1)
    IN  get_next_available_participant(d2)

\* an exhaustion test with > for >=
is_rotation_exhausted_strict(d) ==
    LET schedule == get_schedule(d)
    IN  IF schedule.rotation_list = <<>> THEN TRUE
        ELSE Len(schedule.skipped_this_round) > Len(schedule.rotation_list)

is_rotation_exhausted(d) ==
    LET schedule == get_schedule(d)
    IN  IF schedule.rotation_list = <<>> THEN TRUE
        ELSE Len(schedule.skipped_this_round) >= Len(schedule.rotation_list)

\* the report's next_in_line comes from get_next_available_participant,
\* which writes the pointer when it finds somebody
get_rotation_status(d) ==
    LET schedule == get_schedule(d)
        r == get_next_available_participant(d)
    IN  [db |-> r.db,
         ret |-> [rotation_size |-> Len(schedule.rotation_list),
                  current_pointer |-> schedule.next_pointer_index,
                  skipped_count |-> Len(schedule.skipped_this_round),
                  is_exhausted |-> is_rotation_exhausted(d),
                  next_in_line |-> r.ret]]

\* ------------------------------------------------------- WeeklyScheduler
\* The scheduler's methods act on a world w: the document, the timeout
\* table, and the outputs of the running handler (the duty notifications
\* attempted, in order, and the number of escalation alerts sent).
\* timeout_tasks[u] is "live" while u's task sleeps and "none" otherwise: a
\* task that has run to its end stays in the dict, where cancel() on it does
\* nothing and nothing else reads it.  It is "two" when a second task was
\* created for u while the first still sleeps: the dict then holds the new
\* one and the old one sleeps on, out of reach of every cancel.
World(d, tasks) == [db |-> d, tasks |-> tasks, attempts |-> <<>>, escalations |-> 0]

\* an arming that does not cancel the task already in the dict
start_response_timeout_no_cancel(w, user_id) ==
    [w EXCEPT !.tasks[user_id] = IF @ = "none" THEN "live" ELSE "two"]

\* cancels the task in the dict, if any, and creates a new one in its place
start_response_timeout(w, user_id) ==
    LET w1 == IF w.tasks[user_id] # "none"
              THEN [w EXCEPT !.tasks[user_id] = "none"]
              ELSE w
    IN  [w1 EXCEPT !.tasks[user_id] = IF @ = "none" THEN "live" ELSE "two"]

\* a cancel without the membership test: del on a missing key raises
cancel_timeout_unguarded(tasks, user_id) ==
    [tasks EXCEPT ![user_id] = IF @ # "none" THEN "none" ELSE "KeyError"]

cancel_timeout(tasks, user_id) ==
    IF tasks[user_id] # "none" THEN [tasks EXCEPT ![user_id] = "none"] ELSE tasks

\* an escalation that sends nothing
escalate_to_admins_silent(w) == w

escalate_to_admins(w) == [w EXCEPT !.escalations = @ + 1]

\* a chain that takes the coming Wednesday for every reassignment
RECURSIVE handle_decline_new_date(_, _, _, _)
handle_decline_new_date(w, user_id, fails, today) ==
    LET r == skip_current_and_get_next(w.db)
        w1 == [w EXCEPT !.db = r.db]
    IN  IF r.ret = None THEN escalate_to_admins(w1)
        ELSE LET meeting_date == get_next_wednesday(today)
                 w2 == [w1 EXCEPT !.db = assign_duty(r.db, r.ret, meeting_date, today),
                                  !.attempts = Append(@, r.ret)]
             IN  IF fails = 0
                 THEN start_response_timeout(w2, r.ret)
                 ELSE handle_decline_new_date(w2, r.ret, fails - 1, today)

\* fails: how many deliveries of send_duty_notification fail before one
\* succeeds (the chain of reassignments ends at the first success)
RECURSIVE handle_decline(_, _, _, _)
handle_decline(w, user_id, fails, today) ==
    LET r == skip_current_and_get_next(w.db)
        w1 == [w EXCEPT !.db = r.db]
    IN  IF r.ret = None THEN escalate_to_admins(w1)
        ELSE LET schedule == get_schedule(r.db)
                 meeting_date == IF schedule.next_meeting_date # None
                                 THEN schedule.next_meeting_date
                                 ELSE get_next_wednesday(today)
                 w2 == [w1 EXCEPT !.db = assign_duty(r.db, r.ret, meeting_date, today),
                                  !.attempts = Append(@, r.ret)]
             IN  IF fails = 0
                 THEN start_response_timeout(w2, r.ret)
                 ELSE handle_decline(w2, r.ret, fails - 1, today)

\* a failure that is dropped
handle_notification_failure_dropped(w, user_id, fails, today) == w

handle_notification_failure(w, user_id, fails, today) ==
    handle_decline(w, user_id, fails, today)

weekly_notification_job(w, fails, today) ==
    LET r == get_next_available_participant(w.db)
        w1 == [w EXCEPT !.db = r.db]
    IN  IF r.ret = None THEN escalate_to_admins(w1)
        ELSE LET meeting_date == get_next_wednesday(today)
                 w2 == [w1 EXCEPT !.db = assign_duty(r.db, r.ret, meeting_date, today),
                                  !.attempts = Append(@, r.ret)]
             IN  IF fails = 0
                 THEN start_response_timeout(w2, r.ret)
                 ELSE handle_notification_failure(w2, r.ret, fails - 1, today)

\* a timeout that does not check whose assignment is pending
handle_response_timeout_unchecked(w, user_id, fails, today) ==
    LET schedule == get_schedule(w.db)
        w1 == [w EXCEPT !.tasks[user_id] = "none"]
    IN  IF schedule.assignment_status = "pending"
        THEN handle_decline(w1, user_id, fails, today)
        ELSE w1

\* after the sleep
handle_response_timeout(w, user_id, fails, today) ==
    LET schedule == get_schedule(w.db)
        w1 == [w EXCEPT !.tasks[user_id] = "none"]
    IN  IF schedule.current_assigned_id = user_id
           /\ schedule.assignment_status = "pending"
        THEN handle_decline(w1, user_id, fails, today)
        ELSE w1

\* a check that does not look at the deadline
check_pending_assignments_eager(w, fails, today) ==
    LET schedule == get_schedule(w.db)
    IN  IF schedule.current_assigned_id # None
           /\ schedule.assignment_status = "pending"
        THEN handle_decline(w, schedule.current_assigned_id, fails, today)
        ELSE w

\* a check that never acts
check_pending_assignments_idle(w, fails, today) == w

check_pending_assignments(w, fails, today) ==
    LET schedule == get_schedule(w.db)
    IN  IF schedule.current_assigned_id # None
           /\ schedule.assignment_status = "pending"
           /\ schedule.last_assignment_date # None
           /\ today * 24 > schedule.last_assignment_date * 24 + response_window_hours
        THEN handle_decline(w, schedule.current_assigned_id, fails, today)
        ELSE w

\* a shutdown that leaves the timeout tasks asleep
shutdown_keeps_tasks(w) == w

\* cancels every timeout task and clears the dict
shutdown(w) == [w EXCEPT !.tasks = [i \in Ids |-> "none"]]

\* ------------------------------------------------------- ResponseHandler
\* The bot always runs with a scheduler in bot_data (bot_core.setup), so
\* the callbacks take the scheduler branch.
\* a confirmation that does not verify who confirms
handle_confirmation_unverified(w, user_id) ==
    [w EXCEPT !.db = confirm_assignment(w.db),
              !.tasks = cancel_timeout(w.tasks, user_id)]

handle_confirmation(w, user_id) ==
    LET schedule == get_schedule(w.db)
    IN  IF schedule.current_assigned_id # user_id THEN w
        ELSE [w EXCEPT !.db = confirm_assignment(w.db),
                       !.tasks = cancel_timeout(w.tasks, user_id)]

\* A current assignee whose record was removed makes participant.full_name
\* raise after the timeout is cancelled and before anything is written.
\* The callback after its two awaits (the message edit and the answer to
\* the query): schedule is the object read before them.
decline_write(d, user_id, schedule) ==
    LET d1 == add_skipped_participant(d, user_id)
    IN  update_schedule(d1, [schedule EXCEPT !.assignment_status = "searching"])

decline_after_awaits(w, user_id, schedule, fails, today) ==
    handle_decline([w EXCEPT !.db = decline_write(w.db, user_id, schedule)],
                   user_id, fails, today)

response_handle_decline(w, user_id, fails, today) ==
    LET schedule == get_schedule(w.db)
        w1 == [w EXCEPT !.tasks = cancel_timeout(w.tasks, user_id)]
    IN  IF schedule.current_assigned_id # user_id THEN w
        ELSE IF get_participant(w.db, user_id) = "absent" THEN w1
        ELSE decline_after_awaits(w1, user_id, schedule, fails, today)

\* --------------------------------------------------- AdminCommandHandler
\* date_str: a day number, or None for a string strptime rejects
\* a date check with < for <=: today's date is accepted
adjust_date_accepts_today(d, date_str, today) ==
    IF date_str = None THEN [db |-> d, ret |-> FALSE]
    ELSE IF date_str < today THEN [db |-> d, ret |-> FALSE]
    ELSE LET schedule == get_schedule(d)
         IN  [db |-> update_schedule(d, [schedule EXCEPT !.next_meeting_date = date_str]),
              ret |-> TRUE]

adjust_date(d, date_str, today) ==
    IF date_str = None THEN [db |-> d, ret |-> FALSE]
    ELSE IF date_str <= today THEN [db |-> d, ret |-> FALSE]
    ELSE LET schedule == get_schedule(d)
         IN  [db |-> update_schedule(d, [schedule EXCEPT !.next_meeting_date = date_str]),
              ret |-> TRUE]

assign(d, participant_id, today) ==
    IF get_participant(d, participant_id) # "approved" THEN [db |-> d, ret |-> FALSE]
    ELSE LET schedule == get_schedule(d)
             meeting_date == IF schedule.next_meeting_date = None
                             THEN get_next_wednesday(today)
                             ELSE schedule.next_meeting_date
             d1 == set_current_assignment(d, participant_id, meeting_date, today)
             d2 == update_schedule(d1, [get_schedule(d1) EXCEPT
                                           !.assignment_status = "pending"])
         IN  [db |-> d2, ret |-> TRUE]

remove_user(d, participant_id) ==
    IF get_participant(d, participant_id) = "absent" THEN [db |-> d, ret |-> FALSE]
    ELSE remove_participant(d, participant_id)

\* a reset that leaves the current assignee in place
reset_round_keeps_assignee(d) ==
    LET d1 == clear_skipped_participants(d)
        schedule == get_schedule(d1)
    IN  update_schedule(d1, [schedule EXCEPT !.assignment_status = "pending"])

reset_round(d) ==
    LET d1 == clear_skipped_participants(d)
        schedule == get_schedule(d1)
    IN  update_schedule(d1, [schedule EXCEPT !.assignment_status = "pending",
                                             !.current_assigned_id = None])

\* ------------------------------------------------------------- the system
Failures == 0..NumIds

\* no decline callback waits: the local variables of ResponseHandler.
\* handle_decline (user_id, and schedule as it was read) when one does
NoDecline == [user_id |-> None, schedule |-> Schedule]

Init ==
    /\ db = _initialize_database
    /\ timeout_tasks = [i \in Ids |-> "none"]
    /\ now = 1
    /\ running = TRUE
    /\ suspended = NoDecline

\* Two days pass.  asyncio wakes a sleeping timeout task when its response
\* window is over, so the days do not pass over a live one: it fires or is
\* cancelled first, or the process restarts and loses it.
Tick ==
    /\ now < 1 + 2 * MaxTicks
    /\ \A u \in Ids : timeout_tasks[u] = "none"
    /\ now' = now + 2
    /\ UNCHANGED <<db, timeout_tasks, running, suspended>>

\* SignupHandler.handle_name_response
Register(u) ==
    /\ running
    /\ db' = add_participant(db, u).db
    /\ UNCHANGED <<timeout_tasks, now, running, suspended>>

\* ApprovalHandler.handle_approval
handle_approval(d, user_id, approved) ==
    IF get_participant(d, user_id) # "pending" THEN d
    ELSE update_participant(d, user_id,
                            IF approved THEN "approved" ELSE "inactive").db

HandleApproval(u, approved) ==
    /\ running
    /\ db' = handle_approval(db, u, approved)
    /\ UNCHANGED <<timeout_tasks, now, running, suspended>>

\* AdminCommandHandler.remove_user
RemoveUser(u) ==
    /\ running
    /\ db' = remove_user(db, u).db
    /\ UNCHANGED <<timeout_tasks, now, running, suspended>>

\* AdminCommandHandler.assign
AdminAssign(u) ==
    /\ running
    /\ db' = assign(db, u, now).db
    /\ UNCHANGED <<timeout_tasks, now, running, suspended>>

\* AdminCommandHandler.adjust_date: a malformed string, today, or a later
\* day (day 9, the Wednesday of the second week)
AdjustDate(date_str) ==
    /\ running
    /\ db' = adjust_date(db, date_str, now).db
    /\ UNCHANGED <<timeout_tasks, now, running, suspended>>

\* AdminCommandHandler.reset_round
ResetRound ==
    /\ running
    /\ db' = reset_round(db)
    /\ UNCHANGED <<timeout_tasks, now, running, suspended>>

\* WeeklyScheduler.weekly_notification_job, from cron or /trigger_weekly
WeeklyJob(fails) ==
    /\ running
    /\ \E w \in {weekly_notification_job(World(db, timeout_tasks), fails, now)} :
           /\ db' = w.db
           /\ timeout_tasks' = w.tasks
    /\ UNCHANGED <<now, running, suspended>>

\* the confirm_duty button
ConfirmCallback(u) ==
    /\ running
    /\ \E w \in {handle_confirmation(World(db, timeout_tasks), u)} :
           /\ db' = w.db
           /\ timeout_tasks' = w.tasks
    /\ UNCHANGED <<now, running, suspended>>

\* the decline_duty button
DeclineCallback(u, fails) ==
    /\ running
    /\ \E w \in {response_handle_decline(World(db, timeout_tasks), u, fails, now)} :
           /\ db' = w.db
           /\ timeout_tasks' = w.tasks
    /\ UNCHANGED <<now, running, suspended>>

\* the sleep of u's timeout task ends
TimeoutFire(u, fails) ==
    /\ timeout_tasks[u] = "live"
    /\ \E w \in {handle_response_timeout(World(db, timeout_tasks), u, fails, now)} :
           /\ db' = w.db
           /\ timeout_tasks' = w.tasks
    /\ UNCHANGED <<now, running, suspended>>

\* the 30-minute interval job, also run once at startup
CheckPending(fails) ==
    /\ running
    /\ \E w \in {check_pending_assignments(World(db, timeout_tasks), fails, now)} :
           /\ db' = w.db
           /\ timeout_tasks' = w.tasks
    /\ UNCHANGED <<now, running, suspended>>

\* The process crashes and starts again:
\* the timeout tasks are gone and WeeklyScheduler.initialize runs the check.
Restart(fails) ==
    /\ running
    /\ \E w \in {check_pending_assignments(
                    World(db, [i \in Ids |-> "none"]), fails, now)} :
           /\ db' = w.db
           /\ timeout_tasks' = w.tasks
    /\ UNCHANGED <<now, running, suspended>>

\* BotCore.shutdown: the scheduler is shut down (its jobs stop, its timeout
\* tasks are cancelled), then the application stops and handles no update.
Shutdown ==
    /\ running
    /\ running' = FALSE
    /\ timeout_tasks' = shutdown(World(db, timeout_tasks)).tasks
    /\ UNCHANGED <<db, now, suspended>>

\* BotCore.setup after a shutdown: WeeklyScheduler.initialize runs the check
Start(fails) ==
    /\ ~running
    /\ running' = TRUE
    /\ \E w \in {check_pending_assignments(World(db, timeout_tasks), fails, now)} :
           /\ db' = w.db
           /\ timeout_tasks' = w.tasks
    /\ UNCHANGED <<now, suspended>>

Next ==
    \/ Shutdown
    \/ \E fails \in Failures : Start(fails)
    \/ Tick
    \/ \E u \in Ids : Register(u)
    \/ \E u \in Ids, approved \in BOOLEAN : HandleApproval(u, approved)
    \/ \E u \in Ids : RemoveUser(u)
    \/ \E u \in Ids : AdminAssign(u)
    \/ \E date_str \in {None, now, 9} : AdjustDate(date_str)
    \/ ResetRound
    \/ \E fails \in Failures : WeeklyJob(fails)
    \/ \E u \in Ids : ConfirmCallback(u)
    \/ \E u \in Ids, fails \in Failures : DeclineCallback(u, fails)
    \/ \E u \in Ids, fails \in Failures : TimeoutFire(u, fails)
    \/ \E fails \in Failures : CheckPending(fails)
    \/ \E fails \in Failures : Restart(fails)

Spec == Init /\ [][Next]_vars

\* The scheduler left to itself, under fair scheduling: participants sign
\* up and are approved or rejected, the weekly job assigns, the process
\* crashes and restarts, and no assignee responds and no admin steps in.
\* The clock advances; asyncio wakes a timeout task whose sleep is over;
\* the interval trigger runs check_pending_assignments again and again.
NextLive ==
    \/ Tick
    \/ \E u \in Ids : Register(u)
    \/ \E u \in Ids, approved \in BOOLEAN : HandleApproval(u, approved)
    \/ \E fails \in Failures : WeeklyJob(fails)
    \/ \E u \in Ids, fails \in Failures : TimeoutFire(u, fails)
    \/ \E fails \in Failures : CheckPending(fails)
    \/ \E fails \in Failures : Restart(fails)

SpecLive ==
    /\ Init
    /\ [][NextLive]_vars
    /\ SF_vars(Tick)
    /\ \A u \in Ids : WF_vars(\E fails \in Failures : TimeoutFire(u, fails))
    /\ WF_vars(\E fails \in Failures : CheckPending(fails))

\* The system with the awaits of the decline callback.  The Application is
\* built without concurrent_updates, so it handles one update at a time:
\* while the callback waits no other callback or command runs, but the jobs
\* of the scheduler and the timeout tasks, which live on the same event
\* loop, do.  The bot keeps running here and the meeting date is the
\* scheduler's: shutdown, start and adjust_date are in Spec.
DeclineBegin(u) ==
    /\ running
    /\ suspended = NoDecline
    /\ get_schedule(db).current_assigned_id = u
    /\ get_participant(db, u) # "absent"
    /\ timeout_tasks' = cancel_timeout(timeout_tasks, u)
    /\ suspended' = [user_id |-> u, schedule |-> get_schedule(db)]
    /\ UNCHANGED <<db, now, running>>

DeclineResume(fails) ==
    /\ suspended # NoDecline
    /\ \E w \in {decline_after_awaits(World(db, timeout_tasks), suspended.user_id,
                                      suspended.schedule, fails, now)} :
           /\ db' = w.db
           /\ timeout_tasks' = w.tasks
    /\ suspended' = NoDecline
    /\ UNCHANGED <<now, running>>

NextAwait ==
    \/ /\ suspended = NoDecline
       /\ \/ Tick
          \/ \E u \in Ids : Register(u)
          \/ \E u \in Ids, approved \in BOOLEAN : HandleApproval(u, approved)
          \/ \E u \in Ids : RemoveUser(u)
          \/ \E u \in Ids : AdminAssign(u)
          \/ ResetRound
          \/ \E fails \in Failures : WeeklyJob(fails)
          \/ \E u \in Ids : ConfirmCallback(u)
          \/ \E u \in Ids, fails \in Failures : DeclineCallback(u, fails)
          \/ \E u \in Ids, fails \in Failures : TimeoutFire(u, fails)
          \/ \E fails \in Failures : CheckPending(fails)
          \/ \E fails \in Failures : Restart(fails)
    \/ \E u \in Ids : DeclineBegin(u)
    \/ /\ suspended # NoDecline
       /\ \/ \E fails \in Failures : WeeklyJob(fails)
          \/ \E u \in Ids, fails \in Failures : TimeoutFire(u, fails)
          \/ \E fails \in Failures : CheckPending(fails)
    \/ \E fails \in Failures : DeclineResume(fails)

SpecAwait == Init /\ [][NextAwait]_vars

\* ------------------------------------------ the rotation functions alone
\* Every schedule: any participant statuses, any rotation list without
\* repeats, any pointer into it, any skipped list without repeats.
Statuses == {"absent", "pending", "approved", "inactive"}

DistinctSeqs ==
    UNION {{s \in [1..k -> Ids] : \A i, j \in 1..k : s[i] = s[j] => i = j} :
           k \in 0..NumIds}

InitFn ==
    /\ \E P \in [Ids -> Statuses], rl \in DistinctSeqs, sk \in DistinctSeqs,
          p \in 0..NumIds :
           /\ p < Len(rl) \/ p = 0
           /\ db = [participants |-> P,
                    schedule |-> [Schedule EXCEPT !.rotation_list = rl,
                                                  !.next_pointer_index = p,
                                                  !.skipped_this_round = sk]]
    /\ timeout_tasks = [i \in Ids |-> "none"]
    /\ now = 1
    /\ running = TRUE
    /\ suspended = NoDecline

GetNextAvailable ==
    /\ db' = get_next_available_participant(db).db
    /\ UNCHANGED <<timeout_tasks, now, running, suspended>>

NextFn == GetNextAvailable

SpecFn == InitFn /\ [][NextFn]_vars

\* --------------------------------------------------- the schedule alone
\* Every schedule value: any rotation list and skipped list without
\* repeats, any pointer into the list, any dates, assignee and status.
InitRt ==
    /\ \E rl \in DistinctSeqs, sk \in DistinctSeqs, p \in 0..NumIds,
          last \in {None, 1}, meeting \in {None, 2, 9}, cur \in {None} \cup Ids,
          st \in {"pending", "confirmed", "searching"} :
           /\ p < Len(rl) \/ p = 0
           /\ db = [participants |-> [i \in Ids |-> "approved"],
                    schedule |-> [rotation_list |-> rl,
                                  next_pointer_index |-> p,
                                  last_assignment_date |-> last,
                                  next_meeting_date |-> meeting,
                                  skipped_this_round |-> sk,
                                  current_assigned_id |-> cur,
                                  assignment_status |-> st]]
    /\ timeout_tasks = [i \in Ids |-> "none"]
    /\ now = 1
    /\ running = TRUE
    /\ suspended = NoDecline

\* update_schedule then get_schedule, through the JSON file: the schedule is
\* written as json.dump of its to_dict and read as from_dict of json.load
StoreAndLoad ==
    /\ db' = update_schedule(db, from_dict(json_load(json_dump(to_dict(get_schedule(db))))))
    /\ UNCHANGED <<timeout_tasks, now, running, suspended>>

\* the admin's reset, to move between schedules
ResetRoundRt ==
    /\ db' = reset_round(db)
    /\ UNCHANGED <<timeout_tasks, now, running, suspended>>

NextRt == StoreAndLoad \/ ResetRoundRt

SpecRt == InitRt /\ [][NextRt]_vars

\* ------------------------------------------------------------ properties
Sched == get_schedule(db)
Order == Sched.rotation_list
Pointer == Sched.next_pointer_index
Skipped == Range(Sched.skipped_this_round)
Current == Sched.current_assigned_id
Approved == {i \in Ids : db.participants[i] = "approved"}
W == World(db, timeout_tasks)

Min(S) == CHOOSE x \in S : \A y \in S : x <= y

\* the 0-based position of x in order
Position(order, x) == CHOOSE i \in 0..(Len(order) - 1) : order[i + 1] = x

\* the first id of order that is in ok, looking from the 0-based position
\* start onwards and wrapping around; None when there is none
FirstFrom(order, start, ok) ==
    LET n == Len(order)
        K == {k \in 0..(n - 1) : order[((start + k) % n) + 1] \in ok}
    IN  IF K = {} THEN None ELSE order[((start + Min(K)) % n) + 1]

\* C1: with a non-empty order and nobody skipped, get_next_available_participant
\* returns the participant at order[pointer] if approved and otherwise the
\* next approved one, scanning circularly from pointer; whatever the skipped
\* list, it never returns an id in it.
C1_NextEligible ==
    LET r == get_next_available_participant(db)
    IN  /\ r.ret # None => r.ret \notin Skipped
        /\ (Order # <<>> /\ Skipped = {}) =>
              /\ Order[Pointer + 1] \in Approved => r.ret = Order[Pointer + 1]
              /\ r.ret = FirstFrom(Order, Pointer, Approved)

\* C1's case: the participant at the pointer is not approved and the scan
\* wraps around to an approved one before it
C1_Witness ==
    LET r == get_next_available_participant(db)
    IN  /\ Order # <<>> /\ Skipped = {}
        /\ Order[Pointer + 1] \notin Approved
        /\ r.ret # None
        /\ Position(Order, r.ret) < Pointer

\* C2: the confirmation of the current assignee leaves the persisted pointer
\* at (p + 1) mod len(order).
C2_ConfirmAdvancesPointer ==
    Order # <<>> =>
        confirm_assignment(db).schedule.next_pointer_index
            = (Pointer + 1) % Len(Order)

\* C3: with n >= 2 approved participants in order, when the assignee of a
\* weekly round confirms, the next weekly round assigns that participant's
\* successor in order, not the same participant again.
C3_RotationAcrossRounds ==
    (Len(Order) >= 2 /\ Range(Order) \subseteq Approved) =>
        LET w1 == weekly_notification_job(W, 0, now)
            a == w1.db.schedule.current_assigned_id
            w2 == handle_confirmation(w1, a)
            w3 == weekly_notification_job(w2, 0, now)
            b == w3.db.schedule.current_assigned_id
        IN  Len(w1.attempts) = 1 =>
                /\ b # a
                /\ b = Order[((Position(Order, a) + 1) % Len(Order)) + 1]

\* C4, as claimed: skip_current_and_get_next leaves the pointer at
\* (p + 1) mod len(order).
C4_SkipAdvancesByOne ==
    (Order # <<>> /\ Current # None) =>
        skip_current_and_get_next(db).db.schedule.next_pointer_index
            = (Pointer + 1) % Len(Order)

\* C4, amended: skip_current_and_get_next first advances the pointer by one
\* modulo len(order), also when no new id is added to skipped, and the search
\* then moves it on to the participant it returns: the pointer ends at
\* (p + 1) mod len(order) when nobody is returned or the participant there is
\* eligible, and otherwise at the returned participant, the first eligible
\* one scanning circularly from (p + 1) mod len(order).
C4_SkipAdvancesToNext ==
    Order # <<>> =>
        LET n == Len(Order)
            p1 == (Pointer + 1) % n
            r == skip_current_and_get_next(db)
            again == skip_current_and_get_next(r.db)
            eligible == Approved \ (Skipped \cup {Current})
        IN  /\ r.ret = None => r.db.schedule.next_pointer_index = p1
            /\ Order[p1 + 1] \in eligible => r.db.schedule.next_pointer_index = p1
            /\ r.ret # None =>
                  /\ r.ret = FirstFrom(Order, p1, eligible)
                  /\ Order[r.db.schedule.next_pointer_index + 1] = r.ret
            /\ r.ret = None =>
                  /\ again.db.schedule.skipped_this_round
                         = r.db.schedule.skipped_this_round
                  /\ again.db.schedule.next_pointer_index = (p1 + 1) % n

\* C4's case: the current assignee is skipped and the participant one past
\* the pointer is not eligible, so the pointer moves further
C4_Witness ==
    /\ Order # <<>> /\ Current # None
    /\ LET r == skip_current_and_get_next(db)
       IN  /\ r.ret # None
           /\ r.db.schedule.next_pointer_index # (Pointer + 1) % Len(Order)

\* C5: after confirm_assignment, from any state, skipped is empty and the
\* status is confirmed, and the current assignee, the order and the meeting
\* date are as before.
C5_ConfirmClearsRound ==
    LET after == confirm_assignment(db).schedule
    IN  /\ after.skipped_this_round = <<>>
        /\ after.assignment_status = "confirmed"
        /\ after.current_assigned_id = Sched.current_assigned_id
        /\ after.rotation_list = Sched.rotation_list
        /\ after.next_meeting_date = Sched.next_meeting_date
        /\ \A u \in Ids :
               Current = u => handle_confirmation(W, u).db.schedule = after

\* C5's case: the pending assignee confirms in a round with skipped ids
C5_Witness ==
    /\ Current # None
    /\ Sched.assignment_status = "pending"
    /\ Sched.skipped_this_round # <<>>
    /\ handle_confirmation(W, Current).db.schedule.skipped_this_round = <<>>

\* C6: where skipped and order are equal as sets, is_rotation_exhausted is
\* true and get_next_available_participant returns none; is_rotation_exhausted
\* is true as well when order is empty.
C6_Exhaustion ==
    /\ Range(Order) = Skipped =>
          /\ is_rotation_exhausted(db)
          /\ get_next_available_participant(db).ret = None
    /\ Order = <<>> => is_rotation_exhausted(db)

\* C6's case: everybody in a non-empty order of approved participants was
\* skipped, in another order than the rotation's
C6_Witness ==
    /\ Len(Order) >= 2
    /\ Range(Order) \subseteq Approved
    /\ Range(Order) = Skipped
    /\ Sched.skipped_this_round # Order
    /\ is_rotation_exhausted(db)

\* C7: with a non-empty order, when is_rotation_exhausted is true or the
\* weekly job escalates, every id in order is in skipped.
C7_ExhaustedOnlyWhenAllSkipped ==
    (/\ Order # <<>>
     /\ \/ is_rotation_exhausted(db)
        \/ weekly_notification_job(W, 0, now).escalations > 0)
        => Range(Order) \subseteq Skipped

\* C8: run where every member of order is in skipped (or order is empty),
\* weekly_notification_job alerts the admins and writes no assignment: the
\* document is as before and no timeout is armed.
C8_ExhaustedRoundEscalates ==
    Range(Order) \subseteq Skipped =>
        \A fails \in Failures :
            LET w == weekly_notification_job(W, fails, now)
            IN  /\ w.escalations = 1
                /\ w.attempts = <<>>
                /\ w.db = db
                /\ w.tasks = timeout_tasks

\* C8's case: two participants in order, both skipped, and the job escalates
C8_Witness ==
    /\ Len(Order) = 2
    /\ Range(Order) \subseteq Skipped
    /\ weekly_notification_job(W, 0, now).escalations = 1

\* C9: when u's response timeout fires and u is not the current assignee or
\* the assignment is not pending, nothing happens: the document is as before,
\* nobody is notified and no alert is sent.
C9_StaleTimeoutIsNoOp ==
    \A u \in Ids, fails \in Failures :
        (/\ timeout_tasks[u] = "live"
         /\ ~(Current = u /\ Sched.assignment_status = "pending")) =>
            LET w == handle_response_timeout(W, u, fails, now)
            IN  /\ w.db = db
                /\ w.attempts = <<>>
                /\ w.escalations = 0
                /\ w.tasks = [timeout_tasks EXCEPT ![u] = "none"]

\* C9's case: the assignment was confirmed and a timeout task still sleeps
C9_Witness ==
    \E u \in Ids :
        /\ timeout_tasks[u] = "live"
        /\ Sched.assignment_status = "confirmed"
        /\ handle_response_timeout(W, u, 0, now).db = db

\* C10: when the response timeout of the pending current assignee u fires
\* (and deliveries succeed), u is added to skipped and either the next
\* eligible participant becomes the pending current assignee, notified and
\* with a timeout armed, or, if nobody is eligible, the admins are alerted.
C10_TimeoutReassigns ==
    \A u \in Ids :
        (/\ timeout_tasks[u] = "live"
         /\ Current = u
         /\ Sched.assignment_status = "pending") =>
            LET w == handle_response_timeout(W, u, 0, now)
                after == w.db.schedule
                eligible == Approved \ (Skipped \cup {u})
                q == IF Order = <<>> THEN None
                     ELSE FirstFrom(Order, (Pointer + 1) % Len(Order), eligible)
            IN  /\ InSeq(u, after.skipped_this_round)
                /\ IF q # None
                   THEN /\ after.current_assigned_id = q
                        /\ after.assignment_status = "pending"
                        /\ w.attempts = <<q>>
                        /\ w.tasks[q] = "live"
                        /\ w.escalations = 0
                   ELSE /\ w.escalations = 1
                        /\ w.attempts = <<>>

C12_NotYourAssignment ==
    \A u \in Ids, fails \in Failures :
        Current # u =>
            /\ handle_confirmation(W, u) = W
            /\ response_handle_decline(W, u, fails, now) = W

\* C12's case: an assignment is pending with its timeout armed, and another
\* approved participant, with a stale timeout of its own, presses a button
C12_Witness ==
    \E u \in Ids :
        /\ Current # None /\ Current # u
        /\ Sched.assignment_status = "pending"
        /\ timeout_tasks[Current] = "live"
        /\ timeout_tasks[u] = "live"
        /\ u \in Approved
        /\ response_handle_decline(W, u, 0, now) = W

\* C13: while an assignment is open (the current assignee is pending, is not
\* skipped and has its timeout armed, or the status is searching),
\* weekly_notification_job writes no assignment and sends no duty
\* notification.
C13_OneRoundAtATime ==
    (/\ Current # None
     /\ Current \notin Skipped
     /\ \/ Sched.assignment_status = "pending" /\ timeout_tasks[Current] = "live"
        \/ Sched.assignment_status = "searching") =>
        \A fails \in Failures :
            LET w == weekly_notification_job(W, fails, now)
                after == w.db.schedule
            IN  /\ w.attempts = <<>>
                /\ after.current_assigned_id = Current
                /\ after.last_assignment_date = Sched.last_assignment_date
                /\ after.next_meeting_date = Sched.next_meeting_date
                /\ after.assignment_status = Sched.assignment_status

\* a world with the outputs of the handler that produced it put aside
Quiet(w) == [w EXCEPT !.attempts = <<>>, !.escalations = 0]

\* the worlds one automatic step leaves from world w: a response timeout
\* that fires, a confirm or decline callback, the periodic check (two days
\* later as well when no timeout task sleeps)
AutomaticSteps(w) ==
    {handle_response_timeout(w, u, fails, now) :
        u \in {x \in Ids : w.tasks[x] = "live"}, fails \in Failures}
    \cup {handle_confirmation(w, u) : u \in Ids}
    \cup {response_handle_decline(w, u, fails, now) : u \in Ids, fails \in Failures}
    \cup {check_pending_assignments(w, fails, today) :
            fails \in Failures,
            today \in {now} \cup (IF \A u \in Ids : w.tasks[u] = "none"
                                  THEN {now + 2} ELSE {})}

\* the worlds automatic steps alone lead to from the worlds in S
RECURSIVE AutomaticClosure(_)
AutomaticClosure(S) ==
    LET T == S \cup UNION {{Quiet(x) : x \in AutomaticSteps(w)} : w \in S}
    IN  IF T = S THEN S ELSE AutomaticClosure(T)

\* the worlds left by a scheduler step that escalates in the current state
EscalatedWorlds ==
    {w \in {weekly_notification_job(W, fails, now) : fails \in Failures}
            \cup AutomaticSteps(W) : w.escalations > 0}

\* C14: after the scheduler has escalated, no sequence of automatic steps
\* (response timeouts, the periodic check, confirm and decline callbacks)
\* writes a new assignment or sends a duty notification.
C14_EscalationIsTerminal ==
    \A e \in EscalatedWorlds :
        \A v \in AutomaticClosure({Quiet(e)}) :
            \A x \in AutomaticSteps(v) :
                /\ x.attempts = <<>>
                /\ x.db.schedule.current_assigned_id
                       = v.db.schedule.current_assigned_id

\* C16: for a pending assignment to u, whichever of u's response (confirm or
\* decline callback) and the timeout or overdue check acts first decides,
\* and the later one leaves the schedule as it finds it: a callback of u
\* after the timeout or the overdue check has skipped u, and a timeout or
\* an overdue check for u after u has responded.
C16_FirstResponderWins ==
    \A u \in Ids, f1 \in Failures, f2 \in Failures :
        (Current = u /\ Sched.assignment_status = "pending") =>
            /\ \A first \in
                   (IF timeout_tasks[u] = "live"
                    THEN {handle_response_timeout(W, u, f1, now)} ELSE {})
                   \cup {check_pending_assignments(W, f1, today) :
                             today \in {now, now + 2}} :
                   first.db # db =>
                       /\ handle_confirmation(Quiet(first), u).db = first.db
                       /\ response_handle_decline(Quiet(first), u, f2, now).db
                              = first.db
            /\ \A first \in {handle_confirmation(W, u),
                               response_handle_decline(W, u, f1, now)} :
                   (first.db # db /\ first.db.schedule.current_assigned_id = u) =>
                       /\ first.tasks[u] = "none"
                       /\ handle_response_timeout(Quiet(first), u, f2, now).db
                              = first.db
                       /\ \A today \in {now, now + 2} :
                              check_pending_assignments(Quiet(first), f2, today).db
                                  = first.db

\* C17: once the assignment of u is confirmed, a further confirm or decline
\* callback, of u or of anybody else, leaves skipped, the pointer, the
\* current assignee and the status as they are and notifies nobody.
C17_ConfirmedIsTerminal ==
    (Current # None /\ Sched.assignment_status = "confirmed") =>
        \A u \in Ids, fails \in Failures :
            \A w \in {handle_confirmation(W, u),
                       response_handle_decline(W, u, fails, now)} :
                /\ w.db.schedule.skipped_this_round = Sched.skipped_this_round
                /\ w.db.schedule.next_pointer_index = Pointer
                /\ w.db.schedule.current_assigned_id = Current
                /\ w.db.schedule.assignment_status = "confirmed"
                /\ w.attempts = <<>>
                /\ w.escalations = 0

\* C15: the weekly job that runs a week after the scheduler has escalated
\* starts a fresh round: with an approved participant in order it notifies
\* one and leaves it pending, and sends no alert.
C15_EscalatedRoundDoesNotBlock ==
    \A e \in EscalatedWorlds :
        (Range(e.db.schedule.rotation_list) \cap Approved # {}) =>
            LET w == weekly_notification_job(Quiet(e), 0, now + 7)
            IN  /\ w.escalations = 0
                /\ Len(w.attempts) = 1
                /\ w.db.schedule.current_assigned_id = w.attempts[1]
                /\ w.db.schedule.assignment_status = "pending"

\* C18: in every reachable state with a non-empty order the pointer is an
\* index into it, 0 <= pointer < len(order), and every removal leaves it so.
C18_PointerInRange ==
    /\ Order # <<>> => Pointer \in 0..(Len(Order) - 1)
    /\ \A u \in Ids :
           LET after == remove_participant(db, u).db.schedule
           IN  after.rotation_list # <<>> =>
                   after.next_pointer_index \in 0..(Len(after.rotation_list) - 1)

\* C18's case: the pointer is at the last of two participants, and the
\* removal of the first one resets it to 0
C18_Witness ==
    /\ Len(Order) = 2
    /\ Pointer = 1
    /\ LET after == remove_participant(db, Order[1]).db.schedule
       IN  /\ Len(after.rotation_list) = 1
           /\ after.next_pointer_index = 0

\* C19: in every reachable state the current assignee, if set, is a member
\* of order.
C19_CurrentInOrder ==
    Current # None => InSeq(Current, Order)

\* C20: in every reachable state skipped is a subset of order, and after
\* remove_participant(u) the id u is neither in order nor in skipped.
C20_SkippedInOrder ==
    /\ Skipped \subseteq Range(Order)
    /\ \A u \in Ids :
           LET after == remove_participant(db, u).db.schedule
           IN  /\ ~InSeq(u, after.rotation_list)
               /\ ~InSeq(u, after.skipped_this_round)

\* C21: in every reachable state with a non-empty order, the status is not
\* pending while skipped has as many ids as order: the skip of the last
\* participant escalates and leaves the pending status.
C21_NotPendingWhenExhausted ==
    Order # <<>> =>
        ~(/\ Sched.assignment_status = "pending"
          /\ Cardinality(Skipped) >= Len(Order))

\* C22: get_rotation_status is read-only: in every reachable state, also
\* where order[pointer] is a skipped id, the document after the call is the
\* document before it, the pointer in particular.
C22_StatusSnapshotReadOnly ==
    get_rotation_status(db).db = db

\* C23: cancel_timeout is idempotent: for every id, in every reachable
\* timer table and in the table a first call leaves, a second call changes
\* nothing, a call for an id without a sleeping task
\* changes nothing, and a call leaves the id without a task and the other
\* ids' tasks alone.
C23_CancelIdempotent ==
    \A u \in Ids :
        \A tasks \in {timeout_tasks, cancel_timeout(timeout_tasks, u)} :
            LET once == cancel_timeout(tasks, u)
            IN  /\ cancel_timeout(once, u) = once
                /\ tasks[u] = "none" => once = tasks
                /\ once = [tasks EXCEPT ![u] = "none"]

\* C23's case: a timeout task sleeps for u and is cancelled twice
C23_Witness ==
    \E u \in Ids :
        /\ timeout_tasks[u] = "live"
        /\ cancel_timeout(timeout_tasks, u)[u] = "none"
        /\ cancel_timeout(cancel_timeout(timeout_tasks, u), u)
               = cancel_timeout(timeout_tasks, u)

\* C24: at most one response timeout sleeps per participant: in every
\* reachable state each id has the one sleeping task of the dict or none,
\* never a second one, also after a timeout was armed for an id that had
\* one already.
C24_OneTimeoutPerParticipant ==
    \A u \in Ids : timeout_tasks[u] \in {"none", "live"}

\* C24's case: the weekly job runs again while the assignee's timeout
\* sleeps, and arms a timeout for the same id
C24_Witness ==
    /\ Current # None
    /\ timeout_tasks[Current] = "live"
    /\ LET w == weekly_notification_job(W, 0, now)
       IN  /\ w.attempts = <<Current>>
           /\ w.tasks[Current] = "live"

\* C25: check_pending_assignments runs the decline path exactly when the
\* document holds a pending assignment whose response window is over (more
\* than a day after last_assignment_date, the window being 24 hours): then
\* the assignee is skipped and somebody is notified or the admins are
\* alerted; otherwise nothing changes.
C25_ReconcileIffOverdue ==
    \A fails \in Failures, today \in {now, now + 1} :
        LET w == check_pending_assignments(W, fails, today)
            overdue == /\ Current # None
                       /\ Sched.assignment_status = "pending"
                       /\ today > Sched.last_assignment_date + 1
        IN  IF overdue
            THEN /\ InSeq(Current, w.db.schedule.skipped_this_round)
                 /\ w.escalations = 1 \/ Len(w.attempts) >= 1
            ELSE w = W

\* C25's case: the assignment is pending, two days old, and the check
\* reassigns it
C25_Witness ==
    /\ Current # None
    /\ Sched.assignment_status = "pending"
    /\ now > Sched.last_assignment_date + 1
    /\ LET w == check_pending_assignments(W, 0, now)
       IN  /\ Len(w.attempts) = 1
           /\ w.db.schedule.current_assigned_id # Current

\* C26: for the pending assignee u whose timeout sleeps, the decline
\* callback of u and the timeout of u, run in the same state, leave the
\* same schedule, the same timeout table, the same notifications and the
\* same alerts, also when u was the last participant not skipped.
C26_DeclineEqualsTimeout ==
    \A u \in Ids, fails \in Failures :
        (/\ Current = u
         /\ Sched.assignment_status = "pending"
         /\ timeout_tasks[u] = "live") =>
            LET declined == response_handle_decline(W, u, fails, now)
                timed_out == handle_response_timeout(W, u, fails, now)
            IN  /\ declined.db.schedule = timed_out.db.schedule
                /\ declined.tasks = timed_out.tasks
                /\ declined.attempts = timed_out.attempts
                /\ declined.escalations = timed_out.escalations

C28_OrderAppendOnly ==
    [][LET old == db.schedule.rotation_list
           new == db'.schedule.rotation_list
           kept == Range(old) \cap Range(new)
       IN  /\ \A i, j \in 1..Len(new) : new[i] = new[j] => i = j
           /\ new # old =>
                  /\ \A a, b \in kept :
                         Position(old, a) < Position(old, b)
                             <=> Position(new, a) < Position(new, b)
                  /\ \A a \in Range(new) \ Range(old) :
                         /\ db.participants[a] = "pending"
                         /\ db'.participants[a] = "approved"
                         /\ \A b \in kept : Position(new, b) < Position(new, a)
                  /\ \A a \in Range(old) \ Range(new) :
                         /\ db.participants[a] # "absent"
                         /\ db'.participants[a] = "absent"]_vars

\* C28's case: participant 2 was approved before participant 1, and 1 was
\* appended while 2 held the pending assignment
C28_Witness ==
    /\ Order = <<2, 1>>
    /\ Current = 2
    /\ Sched.assignment_status = "pending"
    /\ Skipped = {}

\* C29: the approval of a registered participant u only appends u to
\* order: the pointer, skipped, the current assignee, the status and the
\* dates are as before, and so is the participant at order[pointer].
C29_ApprovalOnlyAppends ==
    \A u \in Ids :
        get_participant(db, u) = "pending" =>
            LET after == handle_approval(db, u, TRUE)
            IN  /\ after.schedule = [Sched EXCEPT !.rotation_list = Append(Order, u)]
                /\ after.participants = [db.participants EXCEPT ![u] = "approved"]
                /\ Order # <<>> =>
                       after.schedule.rotation_list[after.schedule.next_pointer_index + 1]
                           = Order[Pointer + 1]

\* C29's case: a participant is approved while another one holds the
\* pending assignment with its timeout armed
C29_Witness ==
    \E u \in Ids :
        /\ get_participant(db, u) = "pending"
        /\ Current # None /\ Current # u
        /\ Sched.assignment_status = "pending"
        /\ timeout_tasks[Current] = "live"
        /\ handle_approval(db, u, TRUE).schedule.rotation_list = Append(Order, u)

\* C30, as claimed: reset_round clears skipped and leaves the status none,
\* with order and the pointer as before.
C30_ResetRoundStatusNone ==
    LET after == reset_round(db).schedule
    IN  /\ after.skipped_this_round = <<>>
        /\ after.assignment_status = "none"
        /\ after.rotation_list = Order
        /\ after.next_pointer_index = Pointer

\* C30, amended: reset_round, from any state, clears skipped, clears the
\* current assignee and puts the status back to pending, its value in a new
\* document; order, the pointer and the dates are as before.  No assignment
\* is open then: every response timeout, callback and periodic check that
\* follows leaves the document as it is, notifies nobody and alerts nobody.
C30_ResetRoundNoOpenAssignment ==
    LET after == reset_round(db)
    IN  /\ after.schedule = [Sched EXCEPT !.skipped_this_round = <<>>,
                                          !.current_assigned_id = None,
                                          !.assignment_status = Schedule.assignment_status]
        /\ after.participants = db.participants
        /\ \A w \in AutomaticSteps(World(after, timeout_tasks)) :
               /\ w.db = after
               /\ w.attempts = <<>>
               /\ w.escalations = 0

\* C30's case: the round is reset while an assignment is pending with its
\* timeout armed and somebody was skipped
C30_Witness ==
    /\ Current # None
    /\ Sched.assignment_status = "pending"
    /\ timeout_tasks[Current] = "live"
    /\ Skipped # {}
    /\ reset_round(db).schedule.skipped_this_round = <<>>
    /\ reset_round(db).schedule.current_assigned_id = None

\* C31: validation and not-found errors change nothing: registering an id
\* that has a record, assigning or removing an id that has none, assigning
\* a participant who is not approved, and adjusting the meeting date to a
\* malformed date, to today or to a past day are each rejected with the
\* document, participants and schedule, as it was.
C31_RejectedCommandsChangeNothing ==
    /\ \A u \in Ids :
          /\ get_participant(db, u) # "absent" =>
                add_participant(db, u) = [db |-> db, ret |-> FALSE]
          /\ get_participant(db, u) = "absent" =>
                /\ assign(db, u, now) = [db |-> db, ret |-> FALSE]
                /\ remove_user(db, u) = [db |-> db, ret |-> FALSE]
          /\ get_participant(db, u) \in {"pending", "inactive"} =>
                assign(db, u, now) = [db |-> db, ret |-> FALSE]
    /\ \A date_str \in {None} \cup 1..now :
          adjust_date(db, date_str, now) = [db |-> db, ret |-> FALSE]

\* C31's case: with a round open (an assignee, a meeting date that is not
\* today, somebody skipped) there are a registered id that is not approved
\* and an id without a record, and each rejected command is issued
C31_Witness ==
    /\ Current # None
    /\ Skipped # {}
    /\ Sched.next_meeting_date \notin {None, now}
    /\ now > 1
    /\ \E u, v \in Ids :
          /\ get_participant(db, u) = "pending"
          /\ get_participant(db, v) = "absent"
          /\ ~add_participant(db, u).ret
          /\ ~assign(db, u, now).ret
          /\ ~assign(db, v, now).ret
          /\ ~remove_user(db, v).ret
          /\ ~adjust_date(db, now, now).ret
          /\ ~adjust_date(db, now - 1, now).ret

\* C32: a Schedule survives the round trips: for every schedule value s,
\* from_dict(to_dict(s)) is s field for field, also through the JSON file,
\* and get_schedule after update_schedule(s) returns s.
C32_ScheduleRoundTrip ==
    \A s \in {Sched} :
        /\ from_dict(to_dict(s)) = s
        /\ \A k \in Range(Fields) : from_dict(json_load(json_dump(to_dict(s))))[k] = s[k]
        /\ get_schedule(update_schedule(_initialize_database, s)) = s

\* C32's case: a schedule with no field at its default goes through the
\* round trip
C32_Witness ==
    /\ Len(Order) > 1
    /\ Pointer > 0
    /\ Sched.last_assignment_date # None
    /\ Sched.next_meeting_date # None
    /\ Sched.skipped_this_round # <<>>
    /\ Current # None
    /\ Sched.assignment_status # "pending"
    /\ from_dict(json_load(json_dump(to_dict(Sched)))) = Sched

\* C33: when get_next_available_participant finds a candidate, the document
\* it leaves differs from the one before in the pointer alone, which is the
\* candidate's index (order[pointer] is the returned id); when it finds
\* none (everybody skipped, or no id left that is an approved participant)
\* it returns None and leaves the document as it was.
C33_NextAvailableWritesPointerOnly ==
    LET r == get_next_available_participant(db)
    IN  IF r.ret # None
        THEN /\ r.db = [db EXCEPT !.schedule.next_pointer_index = Position(Order, r.ret)]
             /\ Order[r.db.schedule.next_pointer_index + 1] = r.ret
        ELSE r.db = db

\* C33's case: the candidate is found away from the pointer, which moves
C33_Witness ==
    LET r == get_next_available_participant(db)
    IN  /\ r.ret # None
        /\ Skipped # {}
        /\ r.db.schedule.next_pointer_index # Pointer
        /\ Order[r.db.schedule.next_pointer_index + 1] = r.ret

\* the assignment of u is open and no timeout task sleeps for it
LostTimer(u) ==
    /\ Current = u
    /\ Sched.assignment_status = "pending"
    /\ timeout_tasks[u] = "none"

\* C34: crash recovery: an assignment that is pending with its timeout task
\* lost does not stay open for ever when the assignee never responds: under
\* fair scheduling of the periodic check the assignee is eventually skipped
\* (the round goes on to the next candidate or to the admins), unless the
\* weekly job has given the duty to somebody else first or has assigned it
\* again on the last day of the clock.
C34_LostTimerIsRecovered ==
    \A u \in Ids :
        LostTimer(u) ~>
            \/ InSeq(u, Sched.skipped_this_round)
            \/ Current # u
            \/ Sched.last_assignment_date = 1 + 2 * MaxTicks

\* C34's case: the process has restarted with the assignment of u pending,
\* its timer is gone, and the check that runs two days later skips u
C34_Witness ==
    \E u \in Ids :
        /\ LostTimer(u)
        /\ running
        /\ now < 1 + 2 * MaxTicks
        /\ ~InSeq(u, Sched.skipped_this_round)
        /\ check_pending_assignments(W, 0, now) = W
        /\ InSeq(u, check_pending_assignments(W, 0, now + 2).db.schedule.skipped_this_round)

\* C35: in every reachable state, under every interleaving of callbacks,
\* admin commands and scheduler jobs with a waiting decline callback, every
\* id in order has a participant record whose status is approved, and no id
\* is in order twice; so an id that was removed is in order again only
\* after it was registered and approved again.
C35_OrderIsApprovedParticipants ==
    /\ \A i \in 1..Len(Order) : get_participant(db, Order[i]) = "approved"
    /\ \A i, j \in 1..Len(Order) : Order[i] = Order[j] => i = j

\* C35's case: a decline callback has read the schedule and waits, and the
\* scheduler has since given the assignment to somebody else, so the
\* schedule the callback will write back is stale
C35_Witness ==
    /\ suspended # NoDecline
    /\ Len(Order) > 1
    /\ Current # suspended.user_id
    /\ suspended.schedule # Sched
    /\ get_participant(db, suspended.user_id) = "approved"

\* C36: no committed update is lost to the write of a decline callback that
\* waited: whatever another actor has changed in the schedule since the
\* callback read it (the assignee, the pointer, the dates, an id added to
\* skipped) is in the schedule the callback writes back.
C36_NoLostUpdate ==
    suspended # NoDecline =>
        LET read == suspended.schedule
            written == get_schedule(decline_write(db, suspended.user_id, read))
        IN  /\ \A k \in Range(Fields) \ {"assignment_status", "skipped_this_round"} :
                   Sched[k] # read[k] => written[k] = Sched[k]
            /\ Skipped \subseteq Range(written.skipped_this_round)

\* the worlds the reassignment chain leaves when it starts in the current
\* state, for every number of deliveries that fail in a row
ChainWorlds == {handle_decline(W, Current, fails, now) : fails \in Failures}

\* C37: the reassignment chain terminates: always, with n ids in order,
\* the chain of handle_decline and handle_notification_failure makes at
\* most n assignment attempts, attempts nobody twice and nobody who is
\* skipped in this round, leaves everybody it tried in vain skipped, and
\* ends either with a notified pending assignee whose timeout is armed or
\* with one escalation.
C37_ChainTerminates ==
    [](\A w \in ChainWorlds :
          LET tried == w.attempts
              after == get_schedule(w.db)
          IN  /\ Len(tried) <= Len(Order)
              /\ \A i, j \in 1..Len(tried) : tried[i] = tried[j] => i = j
              /\ Range(tried) \cap Skipped = {}
              /\ \/ /\ w.escalations = 1
                    /\ Range(tried) \subseteq Range(after.skipped_this_round)
                    /\ w.tasks = timeout_tasks
                 \/ /\ w.escalations = 0
                    /\ tried # <<>>
                    /\ after.current_assigned_id = tried[Len(tried)]
                    /\ after.assignment_status = "pending"
                    /\ w.tasks[tried[Len(tried)]] = "live"
                    /\ \A i \in 1..(Len(tried) - 1) :
                           InSeq(tried[i], after.skipped_this_round))

\* C37's case: the chain starts with several ids in order, tries more than
\* one of them, and ends at the admins
C37_Witness ==
    /\ Len(Order) > 1
    /\ Current # None
    /\ \E w \in ChainWorlds :
          /\ Len(w.attempts) = Len(Order) - 1
          /\ w.escalations = 1

\* C38: within a round the meeting date is stable: the reassignment chain,
\* however many deliveries fail, leaves the persisted meeting date of the
\* open assignment as it is, and while an assignment is open a step changes
\* the meeting date only if it is the weekly job or an adjust_date.
C38_MeetingDateStable ==
    /\ [](Current # None =>
             \A w \in ChainWorlds :
                 get_schedule(w.db).next_meeting_date = Sched.next_meeting_date)
    /\ [][(Current # None
           /\ get_schedule(db').next_meeting_date # Sched.next_meeting_date) =>
              \/ \E fails \in Failures :
                     db' = weekly_notification_job(W, fails, now).db
              \/ db' = adjust_date(db, get_schedule(db').next_meeting_date, now).db]_vars

\* C38's case: days after the first assignment of the round, when the
\* coming Wednesday is another one, the chain reassigns the duty
C38_Witness ==
    /\ Current # None
    /\ Sched.next_meeting_date # get_next_wednesday(now)
    /\ \E w \in ChainWorlds :
          /\ w.attempts # <<>>
          /\ get_schedule(w.db).current_assigned_id # Current
          /\ get_schedule(w.db).next_meeting_date = Sched.next_meeting_date

\* C39: the admins are alerted at most once per exhausted round: after an
\* escalation, the periodic check (now and two days later) and the timeout
\* tasks that still sleep send no other escalation alert and leave the
\* pointer and the skipped list as they are.
C39_OneAlertPerExhaustedRound ==
    \A e \in EscalatedWorlds :
        \A x \in {check_pending_assignments(Quiet(e), fails, today) :
                     fails \in Failures,
                     today \in {now} \cup (IF \A u \in Ids : e.tasks[u] = "none"
                                           THEN {now + 2} ELSE {})}
                 \cup {handle_response_timeout(Quiet(e), u, fails, now) :
                          u \in {v \in Ids : e.tasks[v] = "live"},
                          fails \in Failures} :
            /\ x.escalations = 0
            /\ get_schedule(x.db).next_pointer_index
                   = get_schedule(e.db).next_pointer_index
            /\ get_schedule(x.db).skipped_this_round
                   = get_schedule(e.db).skipped_this_round

====
